---- MODULE Spec2Model ----
(***************************************************************************)
(* Model of the reader-writer lock of src/src/lib.rs: a monitor (one       *)
(* Mutex, one Condvar per pending request) with a configurable Preference  *)
(* (Reader / Writer) and Order (Fifo / Lifo).                              *)
(*                                                                         *)
(* Threads call read() or write(), hold the returned guard, read or store  *)
(* the protected value through it, and drop it.  A step of the model is    *)
(* one stretch of code that runs without releasing the mutex.              *)
(***************************************************************************)
EXTENDS Integers, Sequences, FiniteSets, TLC

\* ---- bounds of the model ----
NThreads == 3        \* threads sharing the lock
MaxCalls == 4        \* total number of read()/write() calls in a run
NValues  == 2        \* distinct values of the protected data

Threads == 1..NThreads
Values  == 1..NValues

VARIABLES
    pref,            \* RwLock.pref   : "Reader" | "Writer"
    order,           \* RwLock.order  : "Fifo" | "Lifo"
    lock,            \* RwLock.lock   : 0 = free, t = held by thread t
    data,            \* RwLock.data   : the protected value
    reader_wait,     \* G.reader_wait : sequence of condvar handles
    writer_wait,     \* G.writer_wait : sequence of condvar handles
    reader_active,   \* G.reader_active
    writer_active,   \* G.writer_active
    pc,              \* where each thread is
    cv,              \* cond_var of the call each thread is in (0 = none)
    signaled,        \* a notify_one() has reached the thread's blocked wait
    ncalls,          \* number of calls made so far (also names the handles)
    observed,        \* value a live read guard last dereferenced to (0 = none)
    stored,          \* value last stored through a write guard (0 = none)
    clean,           \* history: one reader admitted first, then only writers
                     \*          that called write() while that reader held
    wseq,            \* history: those writers, in the order of their calls
    wadm             \* history: the writers admitted, in admission order

vars == <<pref, order, lock, data, reader_wait, writer_wait, reader_active,
          writer_active, pc, cv, signaled, ncalls, observed, stored, clean,
          wseq, wadm>>

monitor == <<reader_wait, writer_wait, reader_active, writer_active>>
history == <<stored, clean, wseq, wadm>>

Range(s) == {s[i] : i \in 1..Len(s)}

Reverse(s) == [i \in 1..Len(s) |-> s[Len(s) + 1 - i]]

IsPrefix(s, t) == Len(s) <= Len(t) /\ SubSeq(t, 1, Len(s)) = s

Blocked(t) == pc[t] \in {"r_blocked", "w_blocked"}

\* ---- RwLock::new ----
Init ==
    /\ pref \in {"Reader", "Writer"}
    /\ order \in {"Fifo", "Lifo"}
    /\ lock = 0
    /\ data \in Values
    /\ reader_wait = <<>>
    /\ writer_wait = <<>>
    /\ reader_active = 0
    /\ writer_active = 0
    /\ pc = [t \in Threads |-> "idle"]
    /\ cv = [t \in Threads |-> 0]
    /\ signaled = [t \in Threads |-> FALSE]
    /\ ncalls = 0
    /\ observed = [t \in Threads |-> 0]
    /\ stored = 0
    /\ clean = TRUE
    /\ wseq = <<>>
    /\ wadm = <<>>

\* ---- admission predicates ----
read_wait_blocks_on_readers ==
    writer_active > 0 \/ reader_active > 0

read_wait_ignores_waiting_writers ==
    writer_active > 0

read_wait_never ==
    FALSE

read_wait ==
    IF pref = "Reader"
    THEN writer_active > 0
    ELSE writer_active > 0 \/ Len(writer_wait) > 0

write_wait_ignores_readers ==
    writer_active > 0

write_wait_ignores_waiting_readers ==
    writer_active > 0 \/ reader_active > 0

write_wait_ignores_active_writer ==
    IF pref = "Reader"
    THEN Len(reader_wait) > 0 \/ reader_active > 0
    ELSE reader_active > 0

write_wait ==
    IF pref = "Reader"
    THEN writer_active > 0 \/ Len(reader_wait) > 0 \/ reader_active > 0
    ELSE writer_active > 0 \/ reader_active > 0

\* ---- the queue entry removed on admission: by position, not identity ----
RemoveWaiterKeeps(q) == q

RemoveWaiter(q) ==
    IF order = "Fifo"
    THEN Tail(q)                       \* Vec::remove(0)
    ELSE SubSeq(q, 1, Len(q) - 1)      \* Vec::pop()

\* ---- guard drop: the guarded decrement ----
DecActiveKeeps(n) == n

DecActiveToZero(n) == 0

DecActive(n) == IF n > 0 THEN n - 1 ELSE n

\* ---- notify_others: the handles notify_one() is called on, in order ----
NotifyTargetsWritersFirst(rw, ww) ==
    IF Len(ww) > 0
    THEN (IF order = "Fifo" THEN <<ww[1]>> ELSE <<ww[Len(ww)]>>)
    ELSE IF Len(rw) > 0
         THEN (IF order = "Fifo" THEN rw ELSE Reverse(rw))
         ELSE <<>>

NotifyTargetsReadersFirst(rw, ww) ==
    IF Len(rw) > 0
    THEN (IF order = "Fifo" THEN rw ELSE Reverse(rw))
    ELSE IF Len(ww) > 0
         THEN (IF order = "Fifo" THEN <<ww[1]>> ELSE <<ww[Len(ww)]>>)
         ELSE <<>>

NotifyTargets(rw, ww) ==
    IF pref = "Reader"
    THEN IF Len(rw) > 0
         THEN (IF order = "Fifo" THEN rw ELSE Reverse(rw))
         ELSE IF Len(ww) > 0
              THEN (IF order = "Fifo" THEN <<ww[1]>> ELSE <<ww[Len(ww)]>>)
              ELSE <<>>
    ELSE IF Len(ww) > 0
         THEN (IF order = "Fifo" THEN <<ww[1]>> ELSE <<ww[Len(ww)]>>)
         ELSE IF Len(rw) > 0
              THEN (IF order = "Fifo" THEN rw ELSE Reverse(rw))
              ELSE <<>>

\* Condvar::notify_one on each target: it reaches the thread blocked in
\* wait() on that very condvar, and is lost when no thread is.
Notify(targets) ==
    [t \in Threads |->
        signaled[t] \/ (Blocked(t) /\ cv[t] \in Range(targets))]

\* ---- read() ----
\* lines 106-111: lock the mutex, create the condvar, push it
ReadLock(t) ==
    /\ pc[t] = "idle"
    /\ lock = 0
    /\ ncalls < MaxCalls
    /\ lock' = t
    /\ ncalls' = ncalls + 1
    /\ cv' = [cv EXCEPT ![t] = ncalls + 1]
    /\ reader_wait' = Append(reader_wait, ncalls + 1)
    /\ pc' = [pc EXCEPT ![t] = "r_loop"]
    /\ clean' = (clean /\ ncalls = 0)
    /\ wseq' = IF clean' THEN wseq ELSE <<>>
    /\ wadm' = IF clean' THEN wadm ELSE <<>>
    /\ UNCHANGED <<pref, order, data, writer_wait, reader_active,
                   writer_active, signaled, observed, stored>>

\* lines 112-113: the predicate holds; wait() releases the mutex and blocks
ReadBlock(t) ==
    /\ pc[t] = "r_loop"
    /\ lock = t
    /\ read_wait
    /\ lock' = 0
    /\ pc' = [pc EXCEPT ![t] = "r_blocked"]
    /\ signaled' = [signaled EXCEPT ![t] = FALSE]
    /\ UNCHANGED <<pref, order, data, monitor, cv, ncalls, observed, history>>

\* line 113: wait() returns after a notify_one and re-locks the mutex
ReadWake(t) ==
    /\ pc[t] = "r_blocked"
    /\ signaled[t]
    /\ lock = 0
    /\ lock' = t
    /\ pc' = [pc EXCEPT ![t] = "r_loop"]
    /\ signaled' = [signaled EXCEPT ![t] = FALSE]
    /\ UNCHANGED <<pref, order, data, monitor, cv, ncalls, observed, history>>

\* lines 112, 116-135: the predicate is false; remove one entry, count the
\* reader, return the guard (the mutex guard goes out of scope)
ReadAdmit(t) ==
    /\ pc[t] = "r_loop"
    /\ lock = t
    /\ ~read_wait
    /\ reader_wait' = RemoveWaiter(reader_wait)
    /\ reader_active' = reader_active + 1
    /\ lock' = 0
    /\ pc' = [pc EXCEPT ![t] = "reading"]
    /\ cv' = [cv EXCEPT ![t] = 0]
    /\ UNCHANGED <<pref, order, data, writer_wait, writer_active, signaled,
                   ncalls, observed, history>>

\* Deref for RwLockReadGuard
ReadDeref(t) ==
    /\ pc[t] = "reading"
    /\ observed[t] # data
    /\ observed' = [observed EXCEPT ![t] = data]
    /\ UNCHANGED <<pref, order, lock, data, monitor, pc, cv, signaled,
                   ncalls, history>>

\* Drop for RwLockReadGuard
ReadDrop(t) ==
    /\ pc[t] = "reading"
    /\ lock = 0
    /\ reader_active' = DecActive(reader_active)
    /\ signaled' = Notify(NotifyTargets(reader_wait, writer_wait))
    /\ pc' = [pc EXCEPT ![t] = "idle"]
    /\ observed' = [observed EXCEPT ![t] = 0]
    /\ UNCHANGED <<pref, order, lock, data, reader_wait, writer_wait,
                   writer_active, cv, ncalls, history>>

\* ---- write() ----
\* lines 167-172
WriteLock(t) ==
    /\ pc[t] = "idle"
    /\ lock = 0
    /\ ncalls < MaxCalls
    /\ lock' = t
    /\ ncalls' = ncalls + 1
    /\ cv' = [cv EXCEPT ![t] = ncalls + 1]
    /\ writer_wait' = Append(writer_wait, ncalls + 1)
    /\ pc' = [pc EXCEPT ![t] = "w_loop"]
    /\ clean' = (clean /\ reader_active > 0)
    /\ wseq' = IF clean' THEN Append(wseq, t) ELSE <<>>
    /\ wadm' = IF clean' THEN wadm ELSE <<>>
    /\ UNCHANGED <<pref, order, data, reader_wait, reader_active,
                   writer_active, signaled, observed, stored>>

\* lines 173-174
WriteBlock(t) ==
    /\ pc[t] = "w_loop"
    /\ lock = t
    /\ write_wait
    /\ lock' = 0
    /\ pc' = [pc EXCEPT ![t] = "w_blocked"]
    /\ signaled' = [signaled EXCEPT ![t] = FALSE]
    /\ UNCHANGED <<pref, order, data, monitor, cv, ncalls, observed, history>>

\* line 174
WriteWake(t) ==
    /\ pc[t] = "w_blocked"
    /\ signaled[t]
    /\ lock = 0
    /\ lock' = t
    /\ pc' = [pc EXCEPT ![t] = "w_loop"]
    /\ signaled' = [signaled EXCEPT ![t] = FALSE]
    /\ UNCHANGED <<pref, order, data, monitor, cv, ncalls, observed, history>>

\* lines 173, 176-191
WriteAdmit(t) ==
    /\ pc[t] = "w_loop"
    /\ lock = t
    /\ ~write_wait
    /\ writer_wait' = RemoveWaiter(writer_wait)
    /\ writer_active' = writer_active + 1
    /\ lock' = 0
    /\ pc' = [pc EXCEPT ![t] = "writing"]
    /\ cv' = [cv EXCEPT ![t] = 0]
    /\ wadm' = IF clean THEN Append(wadm, t) ELSE wadm
    /\ UNCHANGED <<pref, order, data, reader_wait, reader_active, signaled,
                   ncalls, observed, stored, clean, wseq>>

\* DerefMut for RwLockWriteGuard: store a value
WriteStore(t, v) ==
    /\ pc[t] = "writing"
    /\ v # data
    /\ data' = v
    /\ stored' = v
    /\ UNCHANGED <<pref, order, lock, monitor, pc, cv, signaled, ncalls,
                   observed, clean, wseq, wadm>>

\* Drop for RwLockWriteGuard
WriteDrop(t) ==
    /\ pc[t] = "writing"
    /\ lock = 0
    /\ writer_active' = DecActive(writer_active)
    /\ signaled' = Notify(NotifyTargets(reader_wait, writer_wait))
    /\ pc' = [pc EXCEPT ![t] = "idle"]
    /\ UNCHANGED <<pref, order, lock, data, reader_wait, writer_wait,
                   reader_active, cv, ncalls, observed, history>>

\* Condvar::wait returns without a notify (a spurious wakeup, which the
\* library allows) and re-locks the mutex
SpuriousWake(t) ==
    /\ Blocked(t)
    /\ ~signaled[t]
    /\ lock = 0
    /\ lock' = t
    /\ pc' = [pc EXCEPT ![t] = IF pc[t] = "r_blocked" THEN "r_loop" ELSE "w_loop"]
    /\ UNCHANGED <<pref, order, data, monitor, cv, signaled, ncalls,
                   observed, history>>

\* notify_others() is public and takes no lock: a thread that is not inside
\* read() or write() calls it on its reference to the lock.  With the mutex
\* free it signals what a drop would; while another thread is inside its
\* critical section the unsynchronised read of the queues races with that
\* thread, and notify_one() may reach any of the blocked threads.
NotifyOthers(t) ==
    /\ pc[t] \in {"idle", "reading", "writing"}
    /\ IF lock = 0
       THEN signaled' = Notify(NotifyTargets(reader_wait, writer_wait))
       ELSE \E S \in SUBSET {u \in Threads : Blocked(u)} :
               signaled' = [u \in Threads |-> signaled[u] \/ u \in S]
    /\ UNCHANGED <<pref, order, lock, data, monitor, pc, cv, ncalls,
                   observed, history>>

Next ==
    \E t \in Threads :
        \/ ReadLock(t)
        \/ ReadBlock(t)
        \/ ReadWake(t)
        \/ ReadAdmit(t)
        \/ ReadDeref(t)
        \/ ReadDrop(t)
        \/ WriteLock(t)
        \/ WriteBlock(t)
        \/ WriteWake(t)
        \/ WriteAdmit(t)
        \/ (\E v \in Values : WriteStore(t, v))
        \/ WriteDrop(t)
        \/ SpuriousWake(t)
        \/ NotifyOthers(t)

Spec == Init /\ [][Next]_vars

TypeOK ==
    /\ pref \in {"Reader", "Writer"}
    /\ order \in {"Fifo", "Lifo"}
    /\ lock \in 0..NThreads
    /\ data \in Values
    /\ reader_active \in 0..NThreads
    /\ writer_active \in 0..NThreads
    /\ ncalls \in 0..MaxCalls
    /\ Range(reader_wait) \subseteq 1..MaxCalls
    /\ Range(writer_wait) \subseteq 1..MaxCalls

\* ---- scheduling: a running thread keeps running, a notified thread gets
\* the mutex, every guard is dropped; nothing promises a spurious wakeup or
\* a further call ----
Fairness ==
    \A t \in Threads :
        /\ WF_vars(ReadBlock(t))
        /\ WF_vars(ReadAdmit(t))
        /\ SF_vars(ReadWake(t))
        /\ SF_vars(ReadDrop(t))
        /\ WF_vars(WriteBlock(t))
        /\ WF_vars(WriteAdmit(t))
        /\ SF_vars(WriteWake(t))
        /\ SF_vars(WriteDrop(t))

FairSpec == Spec /\ Fairness

\* ---- live guards ----
ReadGuards  == {t \in Threads : pc[t] = "reading"}
WriteGuards == {t \in Threads : pc[t] = "writing"}

InRead(t)  == pc[t] \in {"r_loop", "r_blocked"}
InWrite(t) == pc[t] \in {"w_loop", "w_blocked"}

\* C1: mutual exclusion.  In every reachable state there is at most one live
\* write guard, and no read guard is live together with a write guard; the
\* counters say the same (writer_active <= 1, and reader_active > 0 excludes
\* writer_active > 0).
MutualExclusion ==
    /\ Cardinality(WriteGuards) <= 1
    /\ ~(ReadGuards # {} /\ WriteGuards # {})
    /\ writer_active <= 1
    /\ (reader_active > 0 => writer_active = 0)
    /\ (writer_active > 0 => reader_active = 0)

\* a write guard is live while one thread is blocked in read() and another
\* in write()
MutualExclusionWitness ==
    \E t, u, w \in Threads :
        pc[t] = "writing" /\ pc[u] = "r_blocked" /\ pc[w] = "w_blocked"

\* C2: eventual admission.  Under fair scheduling, finitely many calls and
\* every guard dropped, every thread inside read() or write() eventually
\* holds the guard it asked for.
EventualAdmission ==
    \A t \in Threads :
        /\ InRead(t)  ~> (pc[t] = "reading")
        /\ InWrite(t) ~> (pc[t] = "writing")

\* C3: Fifo ordering.  Writer-preferred, Fifo: writers that called write()
\* while the one reader held the lock, with no other request made, obtain
\* the write guard in the order of their calls.
FifoOrder ==
    (pref = "Writer" /\ order = "Fifo" /\ clean) => IsPrefix(wadm, wseq)

\* C4: Lifo ordering.  Writer-preferred, Lifo: the same writers obtain the
\* write guard in the reverse order of their calls.
LifoOrder ==
    (pref = "Writer" /\ order = "Lifo" /\ clean)
        => IsPrefix(wadm, Reverse(wseq))

\* C5: reader-preferred policy.  With Preference::Reader no step admits a
\* writer (raises writer_active) from a state where a writer is active, a
\* reader is active or reader_wait is non-empty.
ReaderPreferred ==
    [][(pref = "Reader" /\ writer_active' > writer_active)
          => (writer_active = 0 /\ reader_active = 0 /\ Len(reader_wait) = 0)]_vars

\* a writer holds the mutex at its admission check and only a waiting
\* reader's queue entry keeps it out
ReaderPreferredWitness ==
    \E t \in Threads :
        /\ pref = "Reader"
        /\ pc[t] = "w_loop"
        /\ writer_active = 0
        /\ reader_active = 0
        /\ Len(reader_wait) > 0

\* C6: writer-preferred policy.  With Preference::Writer no step admits a
\* reader (raises reader_active) from a state where a writer is active or
\* writer_wait is non-empty.
WriterPreferred ==
    [][(pref = "Writer" /\ reader_active' > reader_active)
          => (writer_active = 0 /\ Len(writer_wait) = 0)]_vars

\* a reader holds the mutex at its admission check and only a waiting
\* writer's queue entry keeps it out
WriterPreferredWitness ==
    \E t \in Threads :
        /\ pref = "Writer"
        /\ pc[t] = "r_loop"
        /\ writer_active = 0
        /\ Len(writer_wait) > 0

\* C7: shared-access scaling.  While no thread holds or requests write
\* access, a thread at the admission check of read() does not have to wait
\* (it is admitted in its next step, whatever guards are live), and
\* reader_active counts exactly the readers admitted and not yet dropped.
NoWriters == \A t \in Threads : ~InWrite(t) /\ pc[t] # "writing"

SharedAccess ==
    NoWriters =>
        /\ \A t \in Threads : pc[t] = "r_loop" => ~read_wait
        /\ reader_active = Cardinality(ReadGuards)

\* no write() was ever called and all N threads hold a read guard at once
SharedAccessWitness ==
    /\ ncalls = NThreads
    /\ \A t \in Threads : pc[t] = "reading"
    /\ reader_active = NThreads

\* C8: value integrity.  The value a live read guard dereferenced to is
\* still the protected value: it does not change while the guard is live,
\* so it is the value last stored through a write guard.
ValueIntegrity ==
    \A t \in Threads :
        (pc[t] = "reading" /\ observed[t] # 0) => observed[t] = data

\* a read guard has observed a value that a write guard stored, with a
\* writer waiting to store again
ValueIntegrityWitness ==
    \E t, w \in Threads :
        /\ pc[t] = "reading"
        /\ stored # 0
        /\ observed[t] = stored
        /\ pc[w] = "w_blocked"

\* C9: no double release.  The counters are never negative, reader_active
\* is the number of live read guards and writer_active the number of live
\* write guards.
NoDoubleRelease ==
    /\ reader_active >= 0
    /\ writer_active >= 0
    /\ reader_active = Cardinality(ReadGuards)
    /\ writer_active = Cardinality(WriteGuards)

\* every call made was admitted and its guard dropped; a read guard is live
\* again after that
NoDoubleReleaseWitness ==
    /\ ncalls = MaxCalls
    /\ Cardinality(ReadGuards) = 1
    /\ \A t \in Threads : pc[t] \in {"idle", "reading"}

\* C10: waiter-queue invariant.  Whenever the mutex is free, every handle in
\* reader_wait (writer_wait) is the condvar of exactly one thread blocked in
\* read() (write()).
WaiterQueueInvariant ==
    lock = 0 =>
        /\ \A i \in 1..Len(reader_wait) :
              Cardinality({t \in Threads :
                  pc[t] = "r_blocked" /\ cv[t] = reader_wait[i]}) = 1
        /\ \A i \in 1..Len(writer_wait) :
              Cardinality({t \in Threads :
                  pc[t] = "w_blocked" /\ cv[t] = writer_wait[i]}) = 1

\* ---- the lock as a whole (spec 4.5) ----
Idle      == reader_active = 0 /\ writer_active = 0
Shared    == reader_active > 0
Exclusive == writer_active = 1

\* C11: lock state machine.  Every state is exactly one of Idle, Shared and
\* Exclusive, and no step leads from Exclusive to Shared or from Shared to
\* Exclusive: between the two there is an Idle state.
LockStateMachine ==
    [][/\ (Idle \/ Shared \/ Exclusive) /\ ~(Shared /\ Exclusive)
       /\ ~(Exclusive /\ Shared')
       /\ ~(Shared /\ Exclusive')]_vars

\* the lock is Shared after it was Exclusive (a value was stored), with a
\* writer waiting to make it Exclusive again
LockStateMachineWitness ==
    /\ Shared
    /\ stored # 0
    /\ \E t \in Threads : pc[t] = "w_blocked"

\* ---- the queue entry the code removes on admission ----
RemovedEntry(q) == IF order = "Fifo" THEN q[1] ELSE q[Len(q)]

\* C13: position/identity consistency.  The entry a thread removes when it
\* passes its admission predicate is that thread's own handle.
PositionIdentity ==
    [][\A t \in Threads :
          /\ (pc[t] = "r_loop" /\ pc'[t] = "reading")
                => RemovedEntry(reader_wait) = cv[t]
          /\ (pc[t] = "w_loop" /\ pc'[t] = "writing")
                => RemovedEntry(writer_wait) = cv[t]]_vars

\* ---- a guard drop, and what it signals ----
DropStep ==
    \E t \in Threads : pc[t] \in {"reading", "writing"} /\ pc'[t] = "idle"

\* notify_one() reaches exactly the threads blocked on a handle of H
SignalsExactly(H) ==
    \A u \in Threads :
        signaled'[u] = (signaled[u] \/ (Blocked(u) /\ cv[u] \in H))

OneWriter ==
    IF order = "Fifo" THEN {writer_wait[1]} ELSE {writer_wait[Len(writer_wait)]}

\* C14: wake-selection, reader-preferred.  A guard drop that finds
\* reader_wait non-empty signals every handle of reader_wait and no writer
\* handle; with reader_wait empty and writer_wait non-empty it signals one
\* writer handle, the head under Fifo and the tail under Lifo; with both
\* empty it signals nothing.
WakeSelectionReader ==
    [][(pref = "Reader" /\ DropStep) =>
          IF Len(reader_wait) > 0 THEN SignalsExactly(Range(reader_wait))
          ELSE IF Len(writer_wait) > 0 THEN SignalsExactly(OneWriter)
          ELSE SignalsExactly({})]_vars

\* after a drop under Preference::Reader: the waiting reader is signaled,
\* the waiting writer is not
WakeSelectionReaderWitness ==
    \E r, w \in Threads :
        /\ pref = "Reader"
        /\ Idle
        /\ pc[r] = "r_blocked" /\ signaled[r]
        /\ pc[w] = "w_blocked" /\ ~signaled[w]

\* C15: wake-selection, writer-preferred.  A guard drop that finds
\* writer_wait non-empty signals one writer handle (head under Fifo, tail
\* under Lifo) and no reader handle; with writer_wait empty and reader_wait
\* non-empty it signals every handle of reader_wait.
WakeSelectionWriter ==
    [][(pref = "Writer" /\ DropStep) =>
          IF Len(writer_wait) > 0 THEN SignalsExactly(OneWriter)
          ELSE IF Len(reader_wait) > 0 THEN SignalsExactly(Range(reader_wait))
          ELSE SignalsExactly({})]_vars

\* after a drop under Preference::Writer: of two waiting writers exactly the
\* one the order selects is signaled, and the waiting reader is not
WakeSelectionWriterWitness ==
    \E r, w, x \in Threads :
        /\ pref = "Writer"
        /\ Idle
        /\ pc[w] = "w_blocked" /\ signaled[w] /\ cv[w] \in OneWriter
        /\ pc[x] = "w_blocked" /\ ~signaled[x]
        /\ pc[r] = "r_blocked" /\ ~signaled[r]

\* C16: release frame.  Dropping a read guard lowers reader_active by
\* exactly one, dropping a write guard lowers writer_active by exactly one,
\* and neither changes the other counter or either queue.
ReleaseFrame ==
    [][\A t \in Threads :
          /\ (pc[t] = "reading" /\ pc'[t] = "idle") =>
                /\ reader_active' = reader_active - 1
                /\ UNCHANGED <<writer_active, reader_wait, writer_wait>>
          /\ (pc[t] = "writing" /\ pc'[t] = "idle") =>
                /\ writer_active' = writer_active - 1
                /\ UNCHANGED <<reader_active, reader_wait, writer_wait>>]_vars

\* a drop has signaled a waiter and its entry is still in the queue
ReleaseFrameWitness ==
    \E u \in Threads :
        /\ Idle
        /\ Blocked(u) /\ signaled[u]
        /\ cv[u] \in Range(reader_wait) \cup Range(writer_wait)

\* C17: no lost wakeup.  There is no state where the lock is Idle, the
\* mutex is free, no blocked thread has a pending signal, and yet a thread
\* is blocked in read() or write().
NoLostWakeup ==
    ~ /\ Idle
      /\ lock = 0
      /\ \A t \in Threads : Blocked(t) => ~signaled[t]
      /\ \E t \in Threads : Blocked(t)

\* C18: queue length accounting.  Whenever the mutex is free, reader_wait is
\* as long as the number of threads inside read() and not yet admitted, and
\* writer_wait as long as the number inside write() and not yet admitted.
QueueLengthAccounting ==
    lock = 0 =>
        /\ Len(reader_wait) = Cardinality({t \in Threads : InRead(t)})
        /\ Len(writer_wait) = Cardinality({t \in Threads : InWrite(t)})

\* a thread was admitted without waiting while another one was queued: the
\* queue holds a handle no blocked thread owns, and the lengths still agree
QueueLengthAccountingWitness ==
    /\ lock = 0
    /\ Len(writer_wait) = 1
    /\ \A t \in Threads : cv[t] # writer_wait[1]
    /\ \E t \in Threads : pc[t] = "w_blocked"

\* ---- the admission predicates as the source states them ----
MustWaitRead ==
    writer_active > 0 \/ (pref = "Writer" /\ Len(writer_wait) > 0)

MustWaitWrite ==
    writer_active > 0 \/ reader_active > 0
        \/ (pref = "Reader" /\ Len(reader_wait) > 0)

\* C19: robustness to spurious or extra signals.  A thread that holds the
\* mutex in its wait loop (woken for whatever reason) while its admission
\* predicate is still true goes back to waiting and changes no monitor
\* state; and mutual exclusion holds in every reachable state.
SpuriousRobust ==
    /\ [](/\ Cardinality(WriteGuards) <= 1
          /\ ~(ReadGuards # {} /\ WriteGuards # {}))
    /\ [][\A t \in Threads :
            /\ (pc[t] = "r_loop" /\ MustWaitRead /\ pc'[t] # pc[t])
                  => (pc'[t] = "r_blocked" /\ UNCHANGED monitor)
            /\ (pc[t] = "w_loop" /\ MustWaitWrite /\ pc'[t] # pc[t])
                  => (pc'[t] = "w_blocked" /\ UNCHANGED monitor)]_vars

\* a writer that had blocked is awake again, holding the mutex, while a
\* reader is still active: its predicate is still true
SpuriousRobustWitness ==
    \E t \in Threads :
        /\ pc[t] = "w_loop"
        /\ cv[t] < ncalls
        /\ reader_active > 0

\* C20: the zero-counter branch of release is unreachable.  Every read-guard
\* drop starts with reader_active > 0 and every write-guard drop with
\* writer_active = 1.
ZeroBranchUnreachable ==
    [][\A t \in Threads :
          /\ (pc[t] = "reading" /\ pc'[t] = "idle") => reader_active > 0
          /\ (pc[t] = "writing" /\ pc'[t] = "idle") => writer_active = 1]_vars

\* a read guard was dropped while another one stays live, which is yet to
\* be dropped
ZeroBranchUnreachableWitness ==
    /\ reader_active = 1
    /\ ncalls >= 2
    /\ \E t \in Threads : pc[t] = "reading"
    /\ \A t \in Threads : pc[t] \in {"idle", "reading"}

\* C12: monitor confinement.  Every access to the monitor state by a public
\* operation, notify_others() included, is made by a thread holding the
\* mutex: no thread ever accesses the monitor state while another thread
\* holds the mutex.
MonitorConfinement ==
    [][\A t \in Threads : NotifyOthers(t) => lock = t]_vars

====
